---- MODULE Spec2Model ----
(***************************************************************************)
(* Model of src/layers/residual.py: the residual / ResNeXt blocks and      *)
(* their transposed (upsampling) forms.  One block object is followed      *)
(* through its life: __init__, build, then call / compute_output_shape /   *)
(* get_config.  Shapes are integer sequences (batch, ..., channels) or     *)
(* (batch, channels, ...); a layer is a record of the arguments it was     *)
(* created with; a tensor is its shape plus the list of the layers that    *)
(* were applied to the block's input to produce it.                        *)
(***************************************************************************)
EXTENDS Integers, Sequences, FiniteSets, TLC

VARIABLES pc, args, self, layers, input_shape, raised, ret

vars == <<pc, args, self, layers, input_shape, raised, ret>>

(***************************************************************************)
(* Bounds of the model and the small sets the inputs are drawn from.       *)
(***************************************************************************)
MaxDepth == 4
MaxSize == 2

Classes == {"_Residual", "_ResidualTranspose", "_Resnext", "_ResnextTranspose"}
Ranks == {1, 2, 3}
StrideValues == {1, 2}
TargetSizes == {1, 4}
ChannelValues == {2}
WideChannelValues == {8}
FilterValues == {2, 3}
BatchValues == {4}

(***************************************************************************)
(* Python values.  None for an integer argument is NoneInt, for a list or  *)
(* tuple argument the empty sequence, for a string argument "None".  An    *)
(* attribute that __init__ never assigned reads as "UNSET".                *)
(***************************************************************************)
NoneInt == 0
NoneSeq == << >>

Scalar(n) == [scalar |-> TRUE, v |-> <<n>>]
Tuple(t) == [scalar |-> FALSE, v |-> t]

\* An output_padding / output_cropping argument: None, an integer, or a
\* tuple of (low, high) pairs, one per spatial axis.
NonePad == [kind |-> "None", n |-> 0, pairs |-> << >>]
IntPad(p) == [kind |-> "int", n |-> p, pairs |-> << >>]
PairsPad(ps) == [kind |-> "pairs", n |-> 0, pairs |-> ps]

\* Python truth value of such an argument (lines 1110-1113).
Truthy(p) ==
    \/ p.kind = "int" /\ p.n # 0
    \/ p.kind = "pairs" /\ p.pairs # << >>

Max(a, b) == IF a >= b THEN a ELSE b

IsTransposed(cls) == cls \in {"_ResidualTranspose", "_ResnextTranspose"}
IsResnext(cls) == cls \in {"_Resnext", "_ResnextTranspose"}

(***************************************************************************)
(* Helpers of the module (lines 113-119) and of conv_utils.                *)
(***************************************************************************)
_check_dl_func(a) == \A i \in DOMAIN a : a[i] = 1

RECURSIVE ProdSeq(_)
ProdSeq(x) == IF x = << >> THEN 1 ELSE Head(x) * ProdSeq(Tail(x))

_get_prod(x) == ProdSeq(x)

normalize_tuple_ok(value, n) == value.scalar \/ Len(value.v) = n

normalize_tuple(value, n) ==
    IF value.scalar THEN [i \in 1..n |-> value.v[1]] ELSE value.v

normalize_data_format(value) ==
    IF value = "None" THEN "channels_last" ELSE value

\* activations.get: None gives the linear function.
activations_get(a) == IF a = "None" THEN "linear" ELSE a

(***************************************************************************)
(* __init__ of the four block classes.  The result is the exception        *)
(* raised ("none" if the constructor returns) and the attributes set.      *)
(***************************************************************************)
NoSelf ==
    [rank |-> 0, depth |-> 0, ofilters |-> 0, lgroups |-> NoneInt,
     lfilters |-> NoneInt, kernel_size |-> << >>, strides |-> << >>,
     output_padding |-> NonePad, output_mshape |-> NoneSeq,
     output_cropping |-> NonePad, data_format |-> "UNSET",
     dilation_rate |-> << >>, dropout |-> "UNSET", activation |-> "UNSET",
     high_activation |-> "UNSET", activity_config |-> "UNSET",
     channelIn |-> NoneInt]

\* Lines 283-293: the activation attributes.  Neither branch is taken when
\* activation is None, and then activation and activity_config stay unset.
InitActivation(a) ==
    LET activation == IF a.high_activation # "None" THEN a.high_activation
                      ELSE a.activation
    IN  IF activation \in {"prelu", "lrelu"}
        THEN [activation |-> activations_get("None"),
              high_activation |-> activation,
              activity_config |-> "config"]
        ELSE IF activation # "None"
        THEN [activation |-> activations_get(activation),
              high_activation |-> a.high_activation,
              activity_config |-> "None"]
        ELSE [activation |-> "UNSET",
              high_activation |-> a.high_activation,
              activity_config |-> "UNSET"]

\* The depth check off by one: a block without a middle unit passes.
DepthRejected_OffByOne(a) == a.depth - 2 < 0

DepthRejected(a) == a.depth - 2 < 1

\* The dilation check with "or" for "and".
DilationRejected_Either(a) ==
    \/ ~ _check_dl_func(normalize_tuple(a.dilation_rate, a.rank))
    \/ ~ _check_dl_func(normalize_tuple(a.strides, a.rank))

DilationRejected(a) ==
    /\ ~ _check_dl_func(normalize_tuple(a.dilation_rate, a.rank))
    /\ ~ _check_dl_func(normalize_tuple(a.strides, a.rank))

\* The channels_first check without the rank.
ChannelsFirstRejected_AnyRank(a) ==
    normalize_data_format(a.data_format) = "channels_first"

ChannelsFirstRejected(a) ==
    a.rank = 1 /\ normalize_data_format(a.data_format) = "channels_first"

TupleRejected(a) ==
    \/ ~ normalize_tuple_ok(a.kernel_size, a.rank)
    \/ ~ normalize_tuple_ok(a.strides, a.rank)
    \/ ~ normalize_tuple_ok(a.dilation_rate, a.rank)

\* The attributes a constructor that returns has set.
InitAttributes(a, transposed, resnext) ==
    LET act == InitActivation(a)
    IN  [rank |-> a.rank,
         depth |-> a.depth - 2,
         ofilters |-> a.ofilters,
         lgroups |-> IF resnext THEN a.lgroups ELSE NoneInt,
         lfilters |-> a.lfilters,
         kernel_size |-> normalize_tuple(a.kernel_size, a.rank),
         strides |-> normalize_tuple(a.strides, a.rank),
         output_padding |-> IF transposed THEN a.output_padding ELSE NonePad,
         output_mshape |-> IF transposed /\ a.output_mshape # << >>
                           THEN a.output_mshape ELSE NoneSeq,
         output_cropping |-> IF transposed /\ Truthy(a.output_cropping)
                             THEN a.output_cropping ELSE NonePad,
         data_format |-> normalize_data_format(a.data_format),
         dilation_rate |-> normalize_tuple(a.dilation_rate, a.rank),
         dropout |-> a.dropout,
         activation |-> act.activation,
         high_activation |-> act.high_activation,
         activity_config |-> act.activity_config,
         channelIn |-> NoneInt]

Residual_init(a) ==
    IF DepthRejected(a) \/ TupleRejected(a) \/ DilationRejected(a)
    THEN [raised |-> "ValueError", self |-> NoSelf]
    ELSE [raised |-> "none", self |-> InitAttributes(a, FALSE, FALSE)]

ResidualTranspose_init(a) ==
    IF \/ DepthRejected(a) \/ TupleRejected(a)
       \/ ChannelsFirstRejected(a) \/ DilationRejected(a)
    THEN [raised |-> "ValueError", self |-> NoSelf]
    ELSE [raised |-> "none", self |-> InitAttributes(a, TRUE, FALSE)]

Resnext_init(a) ==
    IF DepthRejected(a) \/ TupleRejected(a) \/ DilationRejected(a)
    THEN [raised |-> "ValueError", self |-> NoSelf]
    ELSE [raised |-> "none", self |-> InitAttributes(a, FALSE, TRUE)]

ResnextTranspose_init(a) ==
    IF \/ DepthRejected(a) \/ TupleRejected(a)
       \/ ChannelsFirstRejected(a) \/ DilationRejected(a)
    THEN [raised |-> "ValueError", self |-> NoSelf]
    ELSE [raised |-> "none", self |-> InitAttributes(a, TRUE, TRUE)]

init(a) ==
    CASE a.cls = "_Residual" -> Residual_init(a)
      [] a.cls = "_ResidualTranspose" -> ResidualTranspose_init(a)
      [] a.cls = "_Resnext" -> Resnext_init(a)
      [] a.cls = "_ResnextTranspose" -> ResnextTranspose_init(a)

(***************************************************************************)
(* Shapes, and the output shapes of the framework layers the blocks use.   *)
(***************************************************************************)
ShapeOf(df, batch, spatial, ch) ==
    IF df = "channels_first" THEN <<batch, ch>> \o spatial
    ELSE <<batch>> \o spatial \o <<ch>>

ChannelAxis(df, shape) == IF df = "channels_first" THEN 2 ELSE Len(shape)

SpatialAxis(df, i) == IF df = "channels_first" THEN i + 2 ELSE i + 1

\* The spatial sizes of a shape, in axis order.
SpatialOf(df, rank, shape) == [i \in 1..rank |-> shape[SpatialAxis(df, i)]]

ChannelOf(df, shape) == shape[ChannelAxis(df, shape)]

\* The index of the spatial axis stored at position k of a shape (0: none).
AxisAt(df, rank, k) ==
    IF \E i \in 1..rank : SpatialAxis(df, i) = k
    THEN CHOOSE i \in 1..rank : SpatialAxis(df, i) = k
    ELSE 0

NoLayer == [kind |-> "None"]
AbsentLayer == [kind |-> "absent"]

\* UpSampling1D(size) / UpSampling2D, 3D(size, data_format).
UpSampling(rank, size, df) ==
    [kind |-> "UpSampling", rank |-> rank, size |-> size, data_format |-> df]

\* (low, high) pairs of a padding or cropping argument: an integer is the
\* same amount on both sides of every axis.
PadPairs(p, rank) ==
    IF p.kind = "int" THEN [i \in 1..rank |-> <<p.n, p.n>>] ELSE p.pairs

ZeroPadding(rank, padding, df) ==
    [kind |-> "ZeroPadding", rank |-> rank,
     padding |-> PadPairs(padding, rank), data_format |-> df]

\* Cropping2D / Cropping3D are created without data_format (lines 1373,
\* 1375), which is then the framework default.
image_data_format == "channels_last"

Cropping(rank, cropping) ==
    [kind |-> "Cropping", rank |-> rank,
     cropping |-> PadPairs(cropping, rank), data_format |-> image_data_format]

Add == [kind |-> "Add"]

\* return_dropout: no layer for dropout=None.
return_dropout(dropout) ==
    IF dropout = "None" THEN NoLayer ELSE [kind |-> "Dropout", type |-> dropout]

\* The normalization-activation-convolution unit and the projection
\* convolution, as the keyword arguments the block passes to them.
ConvUnit(kind, rank, filters, kernel_size, strides, df, dilation_rate, lgroups, activation, high_activation, use_bias) ==
    [kind |-> kind, rank |-> rank, filters |-> filters,
     kernel_size |-> normalize_tuple(kernel_size, rank),
     strides |-> normalize_tuple(strides, rank),
     padding |-> "same", data_format |-> df,
     dilation_rate |-> normalize_tuple(dilation_rate, rank),
     lgroups |-> lgroups, activation |-> activation,
     high_activation |-> high_activation, use_bias |-> use_bias]

\* 'same' padding: the output length is ceil(length / stride).
conv_output_length(length, stride) == (length + stride - 1) \div stride

layer_compute_output_shape(layer, shape) ==
    CASE layer.kind = "UpSampling" ->
           [k \in DOMAIN shape |->
              LET i == AxisAt(layer.data_format, layer.rank, k)
              IN  IF i = 0 THEN shape[k] ELSE layer.size[i] * shape[k]]
      [] layer.kind = "ZeroPadding" ->
           [k \in DOMAIN shape |->
              LET i == AxisAt(layer.data_format, layer.rank, k)
              IN  IF i = 0 THEN shape[k]
                  ELSE shape[k] + layer.padding[i][1] + layer.padding[i][2]]
      [] layer.kind = "Cropping" ->
           [k \in DOMAIN shape |->
              LET i == AxisAt(layer.data_format, layer.rank, k)
              IN  IF i = 0 THEN shape[k]
                  ELSE shape[k] - layer.cropping[i][1] - layer.cropping[i][2]]
      [] layer.kind \in {"NACUnit", "_AConv"} ->
           [k \in DOMAIN shape |->
              LET i == AxisAt(layer.data_format, layer.rank, k)
              IN  IF k = ChannelAxis(layer.data_format, shape)
                  THEN layer.filters
                  ELSE IF i = 0 THEN shape[k]
                  ELSE conv_output_length(shape[k], layer.strides[i])]
      [] OTHER -> shape

\* Add: the element-wise shape of two operands, with broadcasting of a
\* dimension of size one; other unequal dimensions are an error.
MergeCompatible(a, b) ==
    /\ Len(a) = Len(b)
    /\ a[1] = b[1]
    /\ \A k \in 2..Len(a) : a[k] = b[k] \/ a[k] = 1 \/ b[k] = 1

MergeShape(a, b) ==
    [k \in DOMAIN a |-> IF k > 1 /\ a[k] = 1 THEN b[k] ELSE a[k]]

(***************************************************************************)
(* build.  Each stage returns the exception raised ("none" if none) and    *)
(* what it assigned before raising.                                        *)
(***************************************************************************)
NoLayers ==
    [layer_uppool |-> AbsentLayer, layer_padding |-> AbsentLayer,
     layer_branch_left |-> AbsentLayer, layer_dropout |-> AbsentLayer,
     layer_first |-> AbsentLayer, layer_middle |-> << >>,
     layer_last |-> AbsentLayer, layer_merge |-> AbsentLayer,
     layer_cropping |-> AbsentLayer]

\* 'layer_middle_{0:02d}'.format(i)
MiddleName(i) ==
    "layer_middle_" \o (IF i < 10 THEN "0" ELSE "") \o ToString(i)

\* Python's round() of the non-negative root of a x^2 + b x + c = 0, where
\* disc = b^2 - 4 a c: the integer n with n - 1/2 <= x <= n + 1/2, the
\* even one of the two when x lies half way.
RoundQuadRoot(a, b, disc, bound) ==
    CHOOSE n \in 0..bound :
        /\ (2 * a * n - a + b <= 0 \/
            (2 * a * n - a + b) * (2 * a * n - a + b) <= disc)
        /\ disc <= (2 * a * n + a + b) * (2 * a * n + a + b)
        /\ (disc = (2 * a * n + a + b) * (2 * a * n + a + b) => n % 2 = 0)
        /\ (/\ 2 * a * n - a + b > 0
            /\ disc = (2 * a * n - a + b) * (2 * a * n - a + b)) => n % 2 = 0

\* Python's round() of p / q for p >= 0, q > 0.
RoundRatio(p, q) ==
    LET n == (2 * p + q) \div (2 * q)
    IN  IF 2 * p + q = 2 * q * n /\ n % 2 = 1 THEN n - 1 ELSE n

\* Lines 2195-2207: lgroups and lfilters of a ResNeXt block, with
\* cal_lfilters = channelIn / 2 kept exact (all terms are scaled by 4).
\* DK is depth * prod(kernel_size) and S is channelIn + ofilters.
\* The root taken with cal_lfilters = channelIn for channelIn / 2.
CalLfilters_WholeInput(lgroups, DK, S, channelIn) ==
    Max(1, RoundQuadRoot(DK * lgroups, S * lgroups,
                         S * lgroups * S * lgroups
                           + 4 * DK * lgroups * channelIn
                               * (S + DK * channelIn),
                         2 * channelIn))

CalLfilters(lgroups, DK, S, channelIn) ==
    Max(1, RoundQuadRoot(DK * lgroups, S * lgroups,
                         S * lgroups * S * lgroups
                           + DK * lgroups * channelIn
                               * (2 * S + DK * channelIn),
                         channelIn))

CalLgroups(lfilters, DK, S, channelIn) ==
    Max(1, RoundRatio(channelIn * (DK * channelIn + 2 * S),
                      4 * lfilters * (DK * lfilters + S)))

InferLatentWith(s, DK, S) ==
    IF s.lfilters = NoneInt
    THEN [s EXCEPT
            !.lgroups = IF s.lgroups = NoneInt THEN 32 ELSE s.lgroups,
            !.lfilters = CalLfilters(IF s.lgroups = NoneInt THEN 32
                                     ELSE s.lgroups, DK, S, s.channelIn)]
    ELSE IF s.lgroups = NoneInt
    THEN [s EXCEPT !.lgroups = CalLgroups(s.lfilters, DK, S, s.channelIn)]
    ELSE s

InferLatent(s) ==
    InferLatentWith(s, s.depth * _get_prod(s.kernel_size),
                    s.channelIn + s.ofilters)

\* Lines 311-312: lfilters of a residual block.
DefaultLatent(s) ==
    IF s.lfilters = NoneInt
    THEN [s EXCEPT !.lfilters = Max(1, s.channelIn \div 2)]
    ELSE s

\* Lines 304-310: the channel dimension of the input.
SetChannelIn(s, shape) ==
    [s EXCEPT !.channelIn = ChannelOf(s.data_format, shape)]

\* Lines 1173-1214: output_padding and output_cropping inferred from
\* output_mshape.  Both lists are cut with [1:-1].
HalfPair(d) == <<d \div 2, (d \div 2) + (d % 2)>>

\* The difference of line 1183 along axis i, from the two cut lists.
get_shape_diff(s, l_output_mshape, l_input_shape, i) ==
    l_output_mshape[i]
      - l_input_shape[i] * Max(s.strides[i], s.dilation_rate[i])

PaddingOf(d) == IF d > 0 THEN HalfPair(d) ELSE <<0, 0>>

CroppingOf(d) == IF d < 0 THEN HalfPair(- d) ELSE <<0, 0>>

\* Lines 1198-1214: a list of (0, 0) pairs only becomes None.
PairsOrNone(pairs) ==
    IF \A i \in DOMAIN pairs : pairs[i] = <<0, 0>> THEN NonePad
    ELSE PairsPad(pairs)

InferFromLists(s, l_output_mshape, l_input_shape) ==
    [s EXCEPT
       !.output_padding = PairsOrNone(
          [i \in 1..s.rank |->
             PaddingOf(get_shape_diff(s, l_output_mshape, l_input_shape, i))]),
       !.output_cropping = PairsOrNone(
          [i \in 1..s.rank |->
             CroppingOf(get_shape_diff(s, l_output_mshape, l_input_shape, i))])]

\* The inference done only when the user gave no padding or cropping.
InferFromMshape_KeepUser(s, shape) ==
    IF \/ s.output_mshape = NoneSeq
       \/ s.output_padding # NonePad
       \/ s.output_cropping # NonePad
    THEN s
    ELSE InferFromLists(s,
           SubSeq(s.output_mshape, 2, Len(s.output_mshape) - 1),
           SubSeq(shape, 2, Len(shape) - 1))

InferFromMshape(s, shape) ==
    IF s.output_mshape = NoneSeq THEN s
    ELSE InferFromLists(s,
           SubSeq(s.output_mshape, 2, Len(s.output_mshape) - 1),
           SubSeq(shape, 2, Len(shape) - 1))

\* ZeroPadding1D(...)[0] and Cropping1D(...)[0] (lines 1220, 1371): a tuple
\* of one pair is refused by the layer's constructor, and indexing the
\* layer object that an integer produces is a TypeError.
Indexed1DError(p) == IF p.kind = "pairs" THEN "ValueError" ELSE "TypeError"

\* The state of a build under way: the exception raised so far, the
\* attributes, the sub-layers, and the local variables next_shape,
\* left_shape and right_shape.
StartBuild(s, shape) ==
    [raised |-> "none", self |-> s, layers |-> NoLayers,
     next_shape |-> shape, left_shape |-> shape, right_shape |-> shape]

Raise(st, exc) == [st EXCEPT !.raised = exc]

\* Lines 1216-1218: the up-sampling layer.
UppoolOf(s) ==
    IF s.rank = 1 THEN UpSampling(1, <<s.strides[1]>>, "channels_last")
    ELSE UpSampling(s.rank, s.strides, s.data_format)

AssignUppool(st, uppool) ==
    [st EXCEPT !.layers.layer_uppool = uppool,
               !.next_shape = layer_compute_output_shape(uppool, @)]

\* Lines 1219-1244: the padding layer.
AssignPadding(st, s) ==
    IF s.output_padding.kind = "None"
    THEN [st EXCEPT !.layers.layer_padding = NoLayer]
    ELSE IF s.rank = 1
    THEN Raise(st, Indexed1DError(s.output_padding))
    ELSE [st EXCEPT
            !.layers.layer_padding =
               ZeroPadding(s.rank, s.output_padding, s.data_format),
            !.next_shape = layer_compute_output_shape(
               ZeroPadding(s.rank, s.output_padding, s.data_format), @)]

\* Lines 1215-1246.
BuildUpsampling(st) ==
    IF st.self.rank \notin {1, 2, 3} THEN Raise(st, "ValueError")
    ELSE AssignPadding(AssignUppool(st, UppoolOf(st.self)), st.self)

\* The shape after the middle units stored under the names of keys, in
\* the order of keys.
RECURSIVE ThroughMiddle(_, _, _)
ThroughMiddle(layer_middle, keys, shape) ==
    IF keys = << >> THEN shape
    ELSE ThroughMiddle(layer_middle, Tail(keys),
           layer_compute_output_shape(layer_middle[MiddleName(Head(keys))],
                                      shape))

MiddleKeys(depth, first_key) == [i \in 1..depth |-> first_key + i - 1]

\* Lines 319-341: the projection of the left branch.
ProjectionUnit(s, conv_strides) ==
    ConvUnit("_AConv", s.rank, s.ofilters, Scalar(1), conv_strides,
             s.data_format, Scalar(1), NoneInt, "None", "None", TRUE)

\* The first unit without the strides.
FirstUnit_Unstrided(s, conv_strides, latent) ==
    ConvUnit("NACUnit", s.rank, latent, Scalar(1), Scalar(1),
             s.data_format, Scalar(1), NoneInt, s.activation,
             s.high_activation, TRUE)

\* Lines 352-374: the first unit of the conv branch.
FirstUnit(s, conv_strides, latent) ==
    ConvUnit("NACUnit", s.rank, latent, Scalar(1), conv_strides,
             s.data_format, Scalar(1), NoneInt, s.activation,
             s.high_activation, TRUE)

\* Lines 379-410: the middle units, stored under their attribute names.
MiddleUnits(s, latent, groups, first_key) ==
    [n \in {MiddleName(first_key + i) : i \in 0..(s.depth - 1)} |->
       ConvUnit("NACUnit", s.rank, latent, Tuple(s.kernel_size), Scalar(1),
                s.data_format,
                IF n = MiddleName(first_key) THEN Tuple(s.dilation_rate)
                ELSE Scalar(1),
                groups, s.activation, s.high_activation, TRUE)]

\* Lines 411-434: the last unit of the conv branch.
LastUnit(s, last_use_bias) ==
    ConvUnit("NACUnit", s.rank, s.ofilters, Scalar(1), Scalar(1),
             s.data_format, Scalar(1), NoneInt, s.activation,
             s.high_activation, last_use_bias)

\* Lines 313-351: the left branch and the dropout layer, both built on
\* next_shape.
AssignLeft(st, branch_left, dropout) ==
    [st EXCEPT
       !.layers.layer_branch_left = branch_left,
       !.layers.layer_dropout = dropout,
       !.left_shape = layer_compute_output_shape(branch_left, st.next_shape),
       !.right_shape = layer_compute_output_shape(dropout, st.next_shape)]

\* Lines 352-437: the units of the conv branch.  Reading self.activation
\* raises when __init__ did not assign it.
AssignConv(st, first, middle, last, keys) ==
    IF st.self.activation = "UNSET" THEN Raise(st, "AttributeError")
    ELSE [st EXCEPT
            !.layers.layer_first = first,
            !.layers.layer_middle = middle,
            !.layers.layer_last = last,
            !.right_shape =
               layer_compute_output_shape(last,
                 ThroughMiddle(middle, keys,
                   layer_compute_output_shape(first, @)))]

\* Lines 438-439: the merge of the two branches.
AssignMerge(st) ==
    IF st.raised # "none" THEN st
    ELSE IF ~ MergeCompatible(st.left_shape, st.right_shape)
    THEN [st EXCEPT !.layers.layer_merge = Add, !.raised = "ValueError"]
    ELSE [st EXCEPT !.layers.layer_merge = Add,
                    !.next_shape = MergeShape(st.left_shape, st.right_shape)]

\* Lines 313-439 (1247-1368, 2209-2337, 3166-3292): the projection, the
\* dropout, the units of the conv branch and the merge.  The projection is
\* left out when omit_projection holds; conv_strides are the strides given
\* to the projection and to the first unit, latent the filters of the
\* first and middle units, groups the lgroups of the middle units and
\* first_key the number in the name of the first middle unit.
BuildBranches(st, omit_projection, conv_strides, latent, groups, first_key) ==
    IF st.raised # "none" THEN st
    ELSE AssignMerge(
           AssignConv(
             AssignLeft(st,
                        IF omit_projection THEN NoLayer
                        ELSE ProjectionUnit(st.self, conv_strides),
                        return_dropout(st.self.dropout)),
             FirstUnit(st.self, conv_strides, latent),
             MiddleUnits(st.self, latent, groups, first_key),
             LastUnit(st.self, omit_projection),
             MiddleKeys(st.self.depth, first_key)))

\* Lines 1369-1381: the cropping layer, built on the merged shape.
BuildCropping(st) ==
    IF st.raised # "none" THEN st
    ELSE IF st.self.output_cropping.kind = "None"
    THEN [st EXCEPT !.layers.layer_cropping = NoLayer]
    ELSE IF st.self.rank = 1
    THEN Raise(st, Indexed1DError(st.self.output_cropping))
    ELSE [st EXCEPT
            !.layers.layer_cropping =
               Cropping(st.self.rank, st.self.output_cropping),
            !.next_shape = layer_compute_output_shape(
               Cropping(st.self.rank, st.self.output_cropping), @)]

NoTensor == [shape |-> << >>, hist |-> << >>]
ShapeOnly(shape) == [shape |-> shape, hist |-> << >>]

NoConfig == [kind |-> "None"]

Result(op, exc, left, right, out, config) ==
    [op |-> op, raised |-> exc, left |-> left, right |-> right, out |-> out,
     config |-> config]

NoResult == Result("none", "none", NoTensor, NoTensor, NoTensor, NoConfig)

\* What a build leaves behind: the exception, the attributes, the
\* sub-layers, and the shapes of the two branches and of the output.
BuildResult(st) ==
    [raised |-> st.raised, self |-> st.self, layers |-> st.layers,
     ret |-> Result("build", st.raised, ShapeOnly(st.left_shape),
                    ShapeOnly(st.right_shape), ShapeOnly(st.next_shape),
                    NoConfig)]

\* The projection left out whatever the strides.
Residual_branches_AnyStride(st) ==
    BuildBranches(st, st.self.ofilters = st.self.channelIn,
                  Tuple(st.self.strides), st.self.lfilters, NoneInt, 0)

Residual_branches(st) ==
    BuildBranches(st,
                  /\ _check_dl_func(st.self.strides)
                  /\ st.self.ofilters = st.self.channelIn,
                  Tuple(st.self.strides), st.self.lfilters, NoneInt, 0)

\* _Residual.build, lines 301-440.
Residual_build(s, shape) ==
    BuildResult(Residual_branches(
      StartBuild(DefaultLatent(SetChannelIn(s, shape)), shape)))

\* The latent units given the filters of one group.
Resnext_branches_OneGroup(st) ==
    BuildBranches(st,
                  /\ _check_dl_func(st.self.strides)
                  /\ st.self.ofilters = st.self.channelIn,
                  Tuple(st.self.strides),
                  st.self.lfilters, st.self.lgroups, 1)

Resnext_branches(st) ==
    BuildBranches(st,
                  /\ _check_dl_func(st.self.strides)
                  /\ st.self.ofilters = st.self.channelIn,
                  Tuple(st.self.strides),
                  st.self.lgroups * st.self.lfilters, st.self.lgroups, 1)

\* _Resnext.build, lines 2185-2338.
Resnext_build(s, shape) ==
    BuildResult(Resnext_branches(
      StartBuild(InferLatent(SetChannelIn(s, shape)), shape)))

\* The branches of the transposed block given the block's strides.
ResidualTranspose_branches_Strided(st) ==
    BuildBranches(st, st.self.ofilters = st.self.channelIn,
                  Tuple(st.self.strides), st.self.lfilters, NoneInt, 0)

ResidualTranspose_branches(st) ==
    BuildBranches(st, st.self.ofilters = st.self.channelIn, Scalar(1),
                  st.self.lfilters, NoneInt, 0)

\* _ResidualTranspose.build, lines 1160-1382.
ResidualTranspose_build(s, shape) ==
    BuildResult(BuildCropping(ResidualTranspose_branches(BuildUpsampling(
      StartBuild(InferFromMshape(DefaultLatent(SetChannelIn(s, shape)),
                                 shape),
                 shape)))))

ResnextTranspose_branches(st) ==
    BuildBranches(st, st.self.ofilters = st.self.channelIn, Scalar(1),
                  st.self.lgroups * st.self.lfilters, st.self.lgroups, 1)

\* _ResnextTranspose.build, lines 3067-3306.
ResnextTranspose_build(s, shape) ==
    BuildResult(BuildCropping(ResnextTranspose_branches(BuildUpsampling(
      StartBuild(InferFromMshape(InferLatent(SetChannelIn(s, shape)), shape),
                 shape)))))

build(cls, s, shape) ==
    CASE cls = "_Residual" -> Residual_build(s, shape)
      [] cls = "_ResidualTranspose" -> ResidualTranspose_build(s, shape)
      [] cls = "_Resnext" -> Resnext_build(s, shape)
      [] cls = "_ResnextTranspose" -> ResnextTranspose_build(s, shape)

(***************************************************************************)
(* call, compute_output_shape and get_config of a built block.             *)
(***************************************************************************)
Apply(layer, name, t) ==
    [shape |-> layer_compute_output_shape(layer, t.shape),
     hist |-> Append(t.hist, name)]

\* getattr(self, 'layer_middle_..') finds an attribute for every key.
HasMiddle(L, keys) ==
    \A i \in DOMAIN keys : MiddleName(keys[i]) \in DOMAIN L.layer_middle

RECURSIVE CallMiddle(_, _, _)
CallMiddle(layer_middle, keys, t) ==
    IF keys = << >> THEN t
    ELSE CallMiddle(layer_middle, Tail(keys),
           Apply(layer_middle[MiddleName(Head(keys))],
                 MiddleName(Head(keys)), t))

\* The left branch fed with the dropped-out tensor.
CallBranches_DroppedLeft(s, L, x, first_key) ==
    LET dropped == IF L.layer_dropout.kind # "None"
                   THEN Apply(L.layer_dropout, "layer_dropout", x)
                   ELSE x
        branch_left == IF L.layer_branch_left.kind # "None"
                       THEN Apply(L.layer_branch_left, "layer_branch_left",
                                  dropped)
                       ELSE dropped
        keys == MiddleKeys(s.depth, first_key)
        branch_right ==
            Apply(L.layer_last, "layer_last",
                  CallMiddle(L.layer_middle, keys,
                             Apply(L.layer_first, "layer_first", dropped)))
    IN  Result("call", "none", branch_left, branch_right,
               [shape |-> MergeShape(branch_left.shape, branch_right.shape),
                hist |-> <<"layer_merge">>],
               NoConfig)

\* Lines 443-456 (1388-1401, 2341-2354, 3312-3325): both branches and the
\* merge, applied to the tensor x.
CallBranches(s, L, x, first_key) ==
    LET branch_left == IF L.layer_branch_left.kind # "None"
                       THEN Apply(L.layer_branch_left, "layer_branch_left", x)
                       ELSE x
        dropped == IF L.layer_dropout.kind # "None"
                   THEN Apply(L.layer_dropout, "layer_dropout", x)
                   ELSE x
        keys == MiddleKeys(s.depth, first_key)
        branch_right ==
            Apply(L.layer_last, "layer_last",
                  CallMiddle(L.layer_middle, keys,
                             Apply(L.layer_first, "layer_first", dropped)))
        outputs == [shape |-> MergeShape(branch_left.shape, branch_right.shape),
                    hist |-> <<"layer_merge">>]
    IN  IF ~ HasMiddle(L, keys)
        THEN Result("call", "AttributeError", branch_left, dropped, NoTensor,
                    NoConfig)
        ELSE IF ~ MergeCompatible(branch_left.shape, branch_right.shape)
        THEN Result("call", "ValueError", branch_left, branch_right, NoTensor,
                    NoConfig)
        ELSE Result("call", "none", branch_left, branch_right, outputs,
                    NoConfig)

\* _Residual.call, lines 442-457.
Residual_call(s, L, inputs) == CallBranches(s, L, inputs, 0)

\* The middle units looked up under the names _Residual gives them.
Resnext_call_FromZero(s, L, inputs) == CallBranches(s, L, inputs, 0)

\* _Resnext.call, lines 2340-2355.
Resnext_call(s, L, inputs) == CallBranches(s, L, inputs, 1)

\* The cropping applied in front of the branches.
TransposeCall_CroppingFirst(s, L, inputs, first_key) ==
    LET up == Apply(L.layer_uppool, "layer_uppool", inputs)
        padded == IF L.layer_padding.kind # "None"
                  THEN Apply(L.layer_padding, "layer_padding", up) ELSE up
        outputs == IF L.layer_cropping.kind # "None"
                   THEN Apply(L.layer_cropping, "layer_cropping", padded)
                   ELSE padded
    IN  CallBranches(s, L, outputs, first_key)

\* Lines 1385-1387 and 1402-1403: up-sampling and padding in front of the
\* branches, cropping behind the merge.
TransposeCall(s, L, inputs, first_key) ==
    LET up == Apply(L.layer_uppool, "layer_uppool", inputs)
        outputs == IF L.layer_padding.kind # "None"
                   THEN Apply(L.layer_padding, "layer_padding", up) ELSE up
        R == CallBranches(s, L, outputs, first_key)
    IN  IF R.raised = "none" /\ L.layer_cropping.kind # "None"
        THEN [R EXCEPT !.out = Apply(L.layer_cropping, "layer_cropping", @)]
        ELSE R

\* _ResidualTranspose.call, lines 1384-1404.
ResidualTranspose_call(s, L, inputs) == TransposeCall(s, L, inputs, 0)

\* _ResnextTranspose.call, lines 3308-3328.
ResnextTranspose_call(s, L, inputs) == TransposeCall(s, L, inputs, 1)

call(cls, s, L, inputs) ==
    CASE cls = "_Residual" -> Residual_call(s, L, inputs)
      [] cls = "_ResidualTranspose" -> ResidualTranspose_call(s, L, inputs)
      [] cls = "_Resnext" -> Resnext_call(s, L, inputs)
      [] cls = "_ResnextTranspose" -> ResnextTranspose_call(s, L, inputs)

\* The shapes of the branches with the first unit passed over.
ShapeBranches_NoFirst(s, L, x, first_key) ==
    LET branch_left_shape ==
            IF L.layer_branch_left.kind # "None"
            THEN Apply(L.layer_branch_left, "layer_branch_left", x) ELSE x
        dropped == IF L.layer_dropout.kind # "None"
                   THEN Apply(L.layer_dropout, "layer_dropout", x) ELSE x
        keys == MiddleKeys(s.depth, first_key)
        branch_right_shape ==
            Apply(L.layer_last, "layer_last",
                  CallMiddle(L.layer_middle, keys, dropped))
    IN  IF ~ HasMiddle(L, keys)
        THEN Result("compute_output_shape", "AttributeError",
                    branch_left_shape, dropped, NoTensor, NoConfig)
        ELSE Result("compute_output_shape", "none",
                    branch_left_shape, branch_right_shape,
                    [shape |-> branch_right_shape.shape,
                     hist |-> <<"layer_merge">>],
                    NoConfig)

\* Lines 460-473 (1412-1425, 2358-2371, 3336-3349): the shapes of both
\* branches and of the merge, each with the sub-layers that were asked.
ShapeBranches(s, L, x, first_key) ==
    LET branch_left_shape ==
            IF L.layer_branch_left.kind # "None"
            THEN Apply(L.layer_branch_left, "layer_branch_left", x) ELSE x
        dropped == IF L.layer_dropout.kind # "None"
                   THEN Apply(L.layer_dropout, "layer_dropout", x) ELSE x
        keys == MiddleKeys(s.depth, first_key)
        branch_right_shape ==
            Apply(L.layer_last, "layer_last",
                  CallMiddle(L.layer_middle, keys,
                             Apply(L.layer_first, "layer_first", dropped)))
        next_shape == [shape |-> MergeShape(branch_left_shape.shape,
                                            branch_right_shape.shape),
                       hist |-> <<"layer_merge">>]
    IN  IF ~ HasMiddle(L, keys)
        THEN Result("compute_output_shape", "AttributeError",
                    branch_left_shape, dropped, NoTensor, NoConfig)
        ELSE IF ~ MergeCompatible(branch_left_shape.shape,
                                  branch_right_shape.shape)
        THEN Result("compute_output_shape", "ValueError",
                    branch_left_shape, branch_right_shape, NoTensor, NoConfig)
        ELSE Result("compute_output_shape", "none",
                    branch_left_shape, branch_right_shape, next_shape,
                    NoConfig)

\* _Residual.compute_output_shape, lines 459-474.
Residual_compute_output_shape(s, L, shape) ==
    ShapeBranches(s, L, ShapeOnly(shape), 0)

\* _Resnext.compute_output_shape, lines 2357-2372.
Resnext_compute_output_shape(s, L, shape) ==
    ShapeBranches(s, L, ShapeOnly(shape), 1)

\* Lines 1409-1411 and 1426-1427.
TransposeShape(s, L, shape, first_key) ==
    LET up == Apply(L.layer_uppool, "layer_uppool", ShapeOnly(shape))
        next_shape == IF L.layer_padding.kind # "None"
                      THEN Apply(L.layer_padding, "layer_padding", up)
                      ELSE up
        R == ShapeBranches(s, L, next_shape, first_key)
    IN  IF R.raised = "none" /\ L.layer_cropping.kind # "None"
        THEN [R EXCEPT !.out = Apply(L.layer_cropping, "layer_cropping", @)]
        ELSE R

\* _ResidualTranspose.compute_output_shape, lines 1406-1428.
ResidualTranspose_compute_output_shape(s, L, shape) ==
    TransposeShape(s, L, shape, 0)

\* _ResnextTranspose.compute_output_shape, lines 3330-3352.
ResnextTranspose_compute_output_shape(s, L, shape) ==
    TransposeShape(s, L, shape, 1)

compute_output_shape(cls, s, L, shape) ==
    CASE cls = "_Residual" -> Residual_compute_output_shape(s, L, shape)
      [] cls = "_ResidualTranspose" ->
           ResidualTranspose_compute_output_shape(s, L, shape)
      [] cls = "_Resnext" -> Resnext_compute_output_shape(s, L, shape)
      [] cls = "_ResnextTranspose" ->
           ResnextTranspose_compute_output_shape(s, L, shape)

\* activations.serialize: the name of the function.
activations_serialize(a) == a

\* get_config, lines 476-504 (1430-1461, 2374-2403, 3354-3386): reading
\* an attribute that was never assigned is an AttributeError.
get_config(s) ==
    IF s.activation = "UNSET" \/ s.activity_config = "UNSET"
    THEN Result("get_config", "AttributeError", NoTensor, NoTensor, NoTensor,
                NoConfig)
    ELSE Result("get_config", "none", NoTensor, NoTensor, NoTensor,
                [kind |-> "config",
                 depth |-> s.depth + 2,
                 ofilters |-> s.ofilters,
                 lgroups |-> s.lgroups,
                 lfilters |-> s.lfilters,
                 kernel_size |-> s.kernel_size,
                 strides |-> s.strides,
                 output_mshape |-> s.output_mshape,
                 output_padding |-> s.output_padding,
                 output_cropping |-> s.output_cropping,
                 data_format |-> s.data_format,
                 dilation_rate |-> s.dilation_rate,
                 dropout |-> s.dropout,
                 activation |-> activations_serialize(s.activation),
                 activity_config |-> s.activity_config,
                 high_activation |-> s.high_activation])

(***************************************************************************)
(* The arguments blocks are constructed with, and the input shapes they    *)
(* are built on.  The argument space is explored along slices through a    *)
(* base call (see the Construct... actions): the arguments that decide     *)
(* shapes, those that decide the structure of the conv branch, those that  *)
(* decide activation and dropout, and the user's padding and cropping.     *)
(***************************************************************************)
DataFormats == {"channels_last", "channels_first"}

BaseArgs(c, r) ==
    [cls |-> c, rank |-> r, depth |-> 3, ofilters |-> 2,
     kernel_size |-> Scalar(3), lgroups |-> NoneInt, lfilters |-> NoneInt,
     strides |-> Scalar(1), output_mshape |-> NoneSeq,
     output_padding |-> NonePad, output_cropping |-> NonePad,
     data_format |-> "channels_last", dilation_rate |-> Scalar(1),
     dropout |-> "None", activation |-> "relu", high_activation |-> "None"]

Mshapes(c, r, f, o) ==
    IF IsTransposed(c)
    THEN {NoneSeq} \cup
         {ShapeOf(f, b, t, o) : b \in BatchValues, t \in [1..r -> TargetSizes]}
    ELSE {NoneSeq}

KernelArgs(r) ==
    {Scalar(1), Scalar(3), Tuple([i \in 1..r |-> IF i = 1 THEN 1 ELSE 3])}

PaddingValues(r) ==
    {NonePad, IntPad(1), PairsPad([i \in 1..r |-> <<0, i>>])}

CroppingValues == {NonePad, IntPad(0), IntPad(1)}

InputShapes(r, f) ==
    { ShapeOf(f, b, sp, ch) :
        b \in BatchValues, sp \in [1..r -> 1..MaxSize], ch \in ChannelValues }

\* Inputs with more channels, for the ResNeXt blocks that are given lgroups
\* or lfilters: there the inferred latent sizes are larger than 1.
WideInputShapes(a) ==
    IF IsResnext(a.cls) /\ (a.lgroups # NoneInt \/ a.lfilters # NoneInt)
    THEN { ShapeOf(normalize_data_format(a.data_format), b,
                   [i \in 1..a.rank |-> 1], ch) :
             b \in BatchValues, ch \in WideChannelValues }
    ELSE {}

(***************************************************************************)
(* The state machine.                                                      *)
(***************************************************************************)
NoArgs == [cls |-> "none"]

Init ==
    /\ pc = "new"
    /\ args = NoArgs
    /\ self = NoSelf
    /\ layers = NoLayers
    /\ input_shape = << >>
    /\ raised = "none"
    /\ ret = NoResult

\* block = Cls(**a)
Construct(a) ==
    /\ pc = "new"
    /\ \E r \in {init(a)} :
           /\ pc' = IF r.raised = "none" THEN "constructed" ELSE "raised"
           /\ self' = r.self
           /\ raised' = r.raised
    /\ args' = a
    /\ UNCHANGED <<layers, input_shape, ret>>

\* The arguments that decide shapes.
ConstructShape ==
    /\ pc = "new"
    /\ \E c \in Classes, r \in Ranks, f \in DataFormats, o \in FilterValues :
         \E st \in [1..r -> StrideValues], dl \in [1..r -> StrideValues],
            m \in Mshapes(c, r, f, o) :
           Construct([BaseArgs(c, r) EXCEPT
                        !.strides = Tuple(st), !.dilation_rate = Tuple(dl),
                        !.data_format = f, !.ofilters = o,
                        !.output_mshape = m])

\* The arguments that decide the structure of the conv branch.
ConstructStructure ==
    /\ pc = "new"
    /\ \E c \in Classes, r \in Ranks, d \in 1..MaxDepth, o \in FilterValues,
          st \in StrideValues, lf \in {NoneInt, 3} :
         \E k \in KernelArgs(r),
            lg \in (IF IsResnext(c) THEN {NoneInt, 2} ELSE {NoneInt}) :
           Construct([BaseArgs(c, r) EXCEPT
                        !.depth = d, !.kernel_size = k, !.lfilters = lf,
                        !.lgroups = lg, !.ofilters = o,
                        !.strides = Scalar(st)])

\* The arguments that decide activation and dropout.
ConstructBehaviour ==
    /\ pc = "new"
    /\ \E c \in Classes, r \in Ranks, a \in {"None", "relu", "prelu"},
          h \in {"None", "lrelu"}, dr \in {"None", "plain"},
          f \in {"None", "channels_first"}, dl \in StrideValues :
         Construct([BaseArgs(c, r) EXCEPT
                      !.activation = a, !.high_activation = h,
                      !.dropout = dr, !.data_format = f,
                      !.dilation_rate = Scalar(dl)])

\* The user's padding and cropping of a transposed block.
ConstructPadding ==
    /\ pc = "new"
    /\ \E c \in {"_ResidualTranspose", "_ResnextTranspose"}, r \in Ranks,
          q \in CroppingValues, st \in StrideValues :
         \E p \in PaddingValues(r),
            m \in {NoneSeq} \cup
                  {ShapeOf("channels_last", b, [i \in 1..r |-> 3], 2) :
                     b \in BatchValues} :
           Construct([BaseArgs(c, r) EXCEPT
                        !.output_padding = p, !.output_cropping = q,
                        !.output_mshape = m, !.strides = Scalar(st)])

\* block.build(shape)
Build ==
    /\ pc = "constructed"
    /\ \E shape \in InputShapes(self.rank, self.data_format)
                       \cup WideInputShapes(args) :
         /\ \E b \in {build(args.cls, self, shape)} :
              /\ pc' = IF b.raised = "none" THEN "built" ELSE "raised"
              /\ self' = b.self
              /\ layers' = b.layers
              /\ raised' = b.raised
              /\ ret' = b.ret
         /\ input_shape' = shape
    /\ UNCHANGED args

\* block.call(inputs) on a tensor of the shape the block was built on
Call ==
    /\ pc = "built"
    /\ ret' = call(args.cls, self, layers, ShapeOnly(input_shape))
    /\ raised' = ret'.raised
    /\ UNCHANGED <<pc, args, self, layers, input_shape>>

\* block.compute_output_shape(input_shape)
ComputeOutputShape ==
    /\ pc = "built"
    /\ ret' = compute_output_shape(args.cls, self, layers, input_shape)
    /\ raised' = ret'.raised
    /\ UNCHANGED <<pc, args, self, layers, input_shape>>

\* block.get_config()
GetConfig ==
    /\ pc \in {"constructed", "built"}
    /\ ret' = get_config(self)
    /\ raised' = ret'.raised
    /\ UNCHANGED <<pc, args, self, layers, input_shape>>

Next ==
    \/ ConstructShape
    \/ ConstructStructure
    \/ ConstructBehaviour
    \/ ConstructPadding
    \/ Build
    \/ Call
    \/ ComputeOutputShape
    \/ GetConfig

Spec == Init /\ [][Next]_vars

(***************************************************************************)
(* Properties.                                                             *)
(***************************************************************************)
Constructed == args # NoArgs /\ self # NoSelf

AllOnes(t) == \A i \in DOMAIN t : t[i] = 1

\* The least q with q * d >= n.
CeilDiv(n, d) == CHOOSE q \in 0..n : q * d >= n /\ (q - 1) * d < n

\* C1: a transposed block constructed with output_mshape set has, once
\* built, an output (compute_output_shape) whose size along every spatial
\* axis is that of output_mshape.
C1_OutputMatchesMshape ==
    (/\ Constructed
     /\ IsTransposed(args.cls)
     /\ args.output_mshape # NoneSeq
     /\ ret.op = "compute_output_shape")
    => /\ ret.raised = "none"
       /\ SpatialOf(self.data_format, self.rank, ret.out.shape)
            = SpatialOf(self.data_format, self.rank, args.output_mshape)

\* The merge of the two branches was reached by the last operation.
MergeReached ==
    \/ ret.op = "build" /\ layers.layer_merge = Add
    \/ ret.op \in {"call", "compute_output_shape"}
         /\ ret.raised # "AttributeError"

\* C2: in every block class the shape of the left branch and the shape of
\* the right branch are the same when they reach the Add merge, in build,
\* in call and in compute_output_shape.
C2_BranchShapesAgree ==
    MergeReached => ret.left.shape = ret.right.shape

\* A strided block with a projection was called on an input that the
\* strides shrink, and both branches arrived at the merge.
C2_Witness ==
    /\ pc = "built"
    /\ ret.op = "call"
    /\ ret.raised = "none"
    /\ layers.layer_branch_left.kind = "_AConv"
    /\ \E i \in 1..self.rank : self.strides[i] = 2
    /\ ret.left.shape # input_shape
    /\ ret.left.shape = ret.right.shape

\* C3: compute_output_shape of a non-transposed block keeps the batch
\* dimension, has ofilters channels and, along every spatial axis, the
\* size ceil(input_size / stride).
C3_SameOutputShape ==
    (/\ Constructed
     /\ ~ IsTransposed(args.cls)
     /\ ret.op = "compute_output_shape")
    => /\ ret.raised = "none"
       /\ ret.out.shape
            = ShapeOf(self.data_format, input_shape[1],
                      [i \in 1..self.rank |->
                         CeilDiv(SpatialOf(self.data_format, self.rank,
                                           input_shape)[i],
                                 self.strides[i])],
                      args.ofilters)

\* compute_output_shape of a non-transposed block with a stride of two on
\* an axis of size two, and with ofilters other than the input channels.
C3_Witness ==
    /\ Constructed
    /\ ~ IsTransposed(args.cls)
    /\ ret.op = "compute_output_shape"
    /\ ret.raised = "none"
    /\ args.ofilters # ChannelOf(self.data_format, input_shape)
    /\ \E i \in 1..self.rank :
         /\ self.strides[i] = 2
         /\ SpatialOf(self.data_format, self.rank, input_shape)[i] = 2
         /\ SpatialOf(self.data_format, self.rank, ret.out.shape)[i] = 1

\* The left branch of the block has been decided by build.
LeftDecided == Constructed /\ layers.layer_branch_left # AbsentLayer

ProjectionOmitted == layers.layer_branch_left = NoLayer

\* C4: the projection is left out exactly when all strides are 1 and
\* ofilters is the input channel count (non-transposed blocks), or exactly
\* when ofilters is the input channel count (transposed blocks); otherwise
\* it is a 1x1 convolution with ofilters filters and, in the non-transposed
\* blocks, the block's strides.  In call the left branch is the input of
\* the residual computation itself exactly when the projection is left out.
C4_ProjectionRule ==
    LeftDecided =>
      /\ ProjectionOmitted <=>
           /\ args.ofilters = ChannelOf(self.data_format, input_shape)
           /\ IsTransposed(args.cls) \/ AllOnes(self.strides)
      /\ ~ ProjectionOmitted =>
           /\ layers.layer_branch_left.kind = "_AConv"
           /\ layers.layer_branch_left.filters = args.ofilters
           /\ AllOnes(layers.layer_branch_left.kernel_size)
           /\ ~ IsTransposed(args.cls) =>
                layers.layer_branch_left.strides = self.strides
      /\ ret.op = "call" =>
           (ProjectionOmitted <=>
              \A k \in DOMAIN ret.left.hist :
                 ret.left.hist[k] # "layer_branch_left")

\* A non-transposed block whose ofilters is the input channel count but
\* whose strides are not all 1 was built and called: it has a projection.
C4_Witness ==
    /\ LeftDecided
    /\ ~ IsTransposed(args.cls)
    /\ ret.op = "call"
    /\ args.ofilters = ChannelOf(self.data_format, input_shape)
    /\ ~ AllOnes(self.strides)
    /\ ~ ProjectionOmitted

\* C5: a constructor given depth < 3 raises ValueError, and given
\* depth >= 3 it raises only if another check of the arguments does.
C5_DepthCheck ==
    args # NoArgs =>
      /\ args.depth < 3 =>
           pc = "raised" /\ raised = "ValueError" /\ self = NoSelf
      /\ (args.depth >= 3 /\ self = NoSelf) =>
           \/ TupleRejected(args)
           \/ DilationRejected(args)
           \/ IsTransposed(args.cls) /\ ChannelsFirstRejected(args)

\* A constructor was given depth 2 and raised.
C5_WitnessRejected ==
    /\ args # NoArgs
    /\ args.depth = 2
    /\ pc = "raised"
    /\ raised = "ValueError"

\* The names build gives the middle units of a block of the given depth,
\* in the order it creates them, when the first one is numbered k0.
MiddleNames(depth, k0) == [i \in 1..(depth - 2) |-> MiddleName(k0 + i - 1)]

\* The middle units among the sub-layers of hist, in the order they were
\* applied.
MiddleTrace(hist) ==
    LET IsMiddle(n) == n \in DOMAIN layers.layer_middle
    IN  SelectSeq(hist, IsMiddle)

\* C6: a block of depth N+2 has a 1x1 first unit, exactly N middle units
\* with the user's kernel_size and a 1x1 last unit, and call and
\* compute_output_shape go through exactly these N middle units, each
\* once, in the order of their creation.
C6_UnitsOfDepth ==
    /\ (Constructed /\ pc = "built") =>
         /\ layers.layer_first.kind = "NACUnit"
         /\ AllOnes(layers.layer_first.kernel_size)
         /\ Cardinality(DOMAIN layers.layer_middle) = args.depth - 2
         /\ \A n \in DOMAIN layers.layer_middle :
              /\ layers.layer_middle[n].kind = "NACUnit"
              /\ layers.layer_middle[n].kernel_size
                   = normalize_tuple(args.kernel_size, args.rank)
         /\ layers.layer_last.kind = "NACUnit"
         /\ AllOnes(layers.layer_last.kernel_size)
    /\ (Constructed /\ ret.op \in {"call", "compute_output_shape"}) =>
         /\ ret.raised # "AttributeError"
         /\ \E k0 \in {0, 1} :
              /\ DOMAIN layers.layer_middle
                   = {MiddleNames(args.depth, k0)[i] :
                        i \in 1..(args.depth - 2)}
              /\ MiddleTrace(ret.right.hist) = MiddleNames(args.depth, k0)

\* A ResNeXt block of depth 4 with a 3-wide kernel was built and called.
C6_Witness ==
    /\ Constructed
    /\ IsResnext(args.cls)
    /\ args.depth = 4
    /\ self.kernel_size[1] = 3
    /\ ret.op = "call"
    /\ ret.raised = "none"
    /\ Len(MiddleTrace(ret.right.hist)) = 2

\* C7: a constructor given a stride other than 1 together with a dilation
\* rate other than 1 raises ValueError, and a constructor given strides
\* that are all 1 or dilation rates that are all 1 is not stopped by this
\* check.
C7_StrideOrDilation ==
    args # NoArgs =>
      /\ (/\ ~ AllOnes(normalize_tuple(args.strides, args.rank))
          /\ ~ AllOnes(normalize_tuple(args.dilation_rate, args.rank)))
         => pc = "raised" /\ raised = "ValueError" /\ self = NoSelf
      /\ (/\ \/ AllOnes(normalize_tuple(args.strides, args.rank))
             \/ AllOnes(normalize_tuple(args.dilation_rate, args.rank))
          /\ args.depth >= 3
          /\ ~ (/\ IsTransposed(args.cls)
                /\ args.rank = 1
                /\ args.data_format = "channels_first"))
         => self # NoSelf

\* A constructor given a stride of 2 on one axis and a dilation rate of 2
\* on another axis only raised.
C7_Witness ==
    /\ args # NoArgs
    /\ args.rank = 2
    /\ args.strides.v = <<2, 1>>
    /\ args.dilation_rate.v = <<1, 2>>
    /\ pc = "raised"
    /\ raised = "ValueError"

\* The convolution sub-layers the block has so far.
ConvLayers ==
    {l \in {layers.layer_branch_left, layers.layer_first, layers.layer_last}
             \cup {layers.layer_middle[n] : n \in DOMAIN layers.layer_middle} :
       l.kind \in {"NACUnit", "_AConv"}}

\* C8: with activation=None and no _high_activation the block is
\* constructed with the linear activation, and it can be built, called
\* and serialized with get_config, every unit of the conv branch having
\* the linear activation.
C8_NoActivationIsLinear ==
    (/\ Constructed
     /\ args.activation = "None"
     /\ args.high_activation = "None")
    => /\ self.activation = "linear"
       /\ ret.op \in {"build", "get_config"} => ret.raised = "none"
       /\ \A l \in ConvLayers :
            l.kind = "NACUnit" => l.activation = "linear"

\* C9: the up-sampling layer of a transposed block has the block's strides
\* as its size, and the projection and the first, middle and last units
\* all have stride 1.
C9_UpsamplingCarriesStrides ==
    (Constructed /\ IsTransposed(args.cls)) =>
      /\ layers.layer_uppool # AbsentLayer =>
           /\ layers.layer_uppool.kind = "UpSampling"
           /\ layers.layer_uppool.size = self.strides
      /\ \A l \in ConvLayers : AllOnes(l.strides)

\* A transposed block with a stride of 2, a projection and two middle
\* units was built.
C9_Witness ==
    /\ Constructed
    /\ IsTransposed(args.cls)
    /\ pc = "built"
    /\ \E i \in 1..self.rank : self.strides[i] = 2
    /\ layers.layer_branch_left.kind = "_AConv"
    /\ Cardinality(ConvLayers) >= 4
    /\ Cardinality(DOMAIN layers.layer_middle) = 2

Has(hist, name) == \E k \in DOMAIN hist : hist[k] = name

IsPrefix(p, h) == Len(p) <= Len(h) /\ SubSeq(h, 1, Len(p)) = p

\* A transposed block returned from call.
TransposedCalled ==
    /\ Constructed
    /\ IsTransposed(args.cls)
    /\ ret.op = "call"
    /\ ret.raised = "none"

\* The sub-layers call applies in front of both branches.
BeforeBranches ==
    <<"layer_uppool">>
      \o (IF layers.layer_padding # NoLayer THEN <<"layer_padding">>
          ELSE << >>)

\* C10 as stated: in the call of a transposed block the up-sampling, the
\* padding and the cropping are all applied before the two branches and
\* the merge.
C10_AllBeforeResidual ==
    TransposedCalled =>
      /\ IsPrefix(BeforeBranches, ret.left.hist)
      /\ IsPrefix(BeforeBranches, ret.right.hist)
      /\ layers.layer_cropping # NoLayer =>
           /\ Has(ret.left.hist, "layer_cropping")
           /\ Has(ret.right.hist, "layer_cropping")
           /\ ~ Has(ret.out.hist, "layer_cropping")

\* C10, amended: in the call of a transposed block the up-sampling and the
\* optional padding are applied before the two branches, and the optional
\* cropping is applied to the result of the merge.
C10_CroppingAfterMerge ==
    TransposedCalled =>
      /\ IsPrefix(BeforeBranches, ret.left.hist)
      /\ IsPrefix(BeforeBranches, ret.right.hist)
      /\ ~ Has(ret.left.hist, "layer_cropping")
      /\ ~ Has(ret.right.hist, "layer_cropping")
      /\ ret.out.hist
           = <<"layer_merge">>
               \o (IF layers.layer_cropping # NoLayer
                   THEN <<"layer_cropping">> ELSE << >>)

\* A transposed block with a padding layer and a cropping layer was
\* called.
C10_Witness ==
    /\ TransposedCalled
    /\ layers.layer_padding.kind = "ZeroPadding"
    /\ layers.layer_cropping.kind = "Cropping"
    /\ ret.out.shape # ret.left.shape

\* The sub-layers in front of both branches: none in a non-transposed
\* block.
BranchInput ==
    IF IsTransposed(args.cls) THEN BeforeBranches ELSE << >>

\* The position of the first occurrence of name in hist (0: none).
FirstAt(hist, name) ==
    IF Has(hist, name)
    THEN CHOOSE k \in DOMAIN hist :
           hist[k] = name /\ \A j \in 1..(k - 1) : hist[j] # name
    ELSE 0

\* C11: the dropout layer, when there is one, is applied once, to the
\* input of the conv branch and in front of its first unit; the left
\* branch takes the input of the branches without dropout, and no dropout
\* follows a unit of the conv branch.
C11_DropoutAtEntrance ==
    (/\ Constructed
     /\ ret.op \in {"call", "compute_output_shape"}
     /\ ret.raised = "none")
    => /\ ret.left.hist
            = BranchInput
                \o (IF layers.layer_branch_left # NoLayer
                    THEN <<"layer_branch_left">> ELSE << >>)
       /\ IsPrefix(BranchInput, ret.right.hist)
       /\ Has(ret.right.hist, "layer_dropout")
            <=> layers.layer_dropout # NoLayer
       /\ \A k \in DOMAIN ret.right.hist :
            ret.right.hist[k] = "layer_dropout"
              => /\ k = Len(BranchInput) + 1
                 /\ k + 1 = FirstAt(ret.right.hist, "layer_first")

\* A block with a dropout layer was called, and its conv branch went
\* through the dropout and then the units.
C11_Witness ==
    /\ Constructed
    /\ ret.op = "call"
    /\ ret.raised = "none"
    /\ layers.layer_dropout.kind = "Dropout"
    /\ Has(ret.right.hist, "layer_dropout")
    /\ Has(ret.right.hist, "layer_last")

\* A transposed block constructed with output_mshape has started build.
MshapeBuildStarted ==
    /\ Constructed
    /\ IsTransposed(args.cls)
    /\ args.output_mshape # NoneSeq
    /\ input_shape # << >>

\* C12: when output_mshape is set, the padding and the cropping a build
\* leaves in the block, and the layers made from them, are those inferred
\* from output_mshape, the input shape, strides and dilation_rate: they
\* are the same whatever output_padding and output_cropping the user gave.
C12_MshapeOverridesUser ==
    MshapeBuildStarted =>
      /\ \A p \in PaddingValues(self.rank), q \in CroppingValues :
           \E t \in {InferFromMshape([self EXCEPT !.output_padding = p,
                                                  !.output_cropping = q],
                                     input_shape)} :
              /\ t.output_padding = self.output_padding
              /\ t.output_cropping = self.output_cropping
      /\ pc = "built" =>
           /\ layers.layer_padding
                = (IF self.output_padding = NonePad THEN NoLayer
                   ELSE ZeroPadding(self.rank, self.output_padding,
                                    self.data_format))
           /\ layers.layer_cropping
                = (IF self.output_cropping = NonePad THEN NoLayer
                   ELSE Cropping(self.rank, self.output_cropping))

\* A transposed block given output_mshape together with a padding and a
\* cropping of its own was built, and has neither of the two.
C12_Witness ==
    /\ MshapeBuildStarted
    /\ pc = "built"
    /\ args.output_padding = IntPad(1)
    /\ args.output_cropping = IntPad(1)
    /\ self.output_padding # args.output_padding
    /\ self.output_cropping # args.output_cropping

\* C13: the constructor of a transposed block of rank 1 whose data_format
\* is channels_first raises ValueError, and the constructor of a
\* transposed block of rank 2 or 3 accepts channels_last and
\* channels_first alike.
C13_ChannelsFirst1D ==
    (args # NoArgs /\ IsTransposed(args.cls)) =>
      /\ (args.rank = 1 /\ args.data_format = "channels_first")
         => pc = "raised" /\ raised = "ValueError" /\ self = NoSelf
      /\ (/\ args.rank \in {2, 3}
          /\ args.depth >= 3
          /\ \/ AllOnes(normalize_tuple(args.strides, args.rank))
             \/ AllOnes(normalize_tuple(args.dilation_rate, args.rank)))
         => /\ self # NoSelf
            /\ self.data_format
                 = (IF args.data_format = "channels_first"
                    THEN "channels_first" ELSE "channels_last")

\* The constructor of a 1D transposed block given channels_first raised,
\* with arguments that nothing else refuses.
C13_Witness ==
    /\ args # NoArgs
    /\ IsTransposed(args.cls)
    /\ args.rank = 1
    /\ args.data_format = "channels_first"
    /\ args.depth = 3
    /\ AllOnes(normalize_tuple(args.strides, args.rank))
    /\ pc = "raised"
    /\ raised = "ValueError"

\* A ResNeXt block was built.
ResnextBuilt == Constructed /\ IsResnext(args.cls) /\ pc = "built"

\* C14: in a built ResNeXt block lgroups and lfilters are those the user
\* gave, the first unit and every middle unit have lgroups * lfilters
\* filters, every middle unit is grouped with lgroups groups, which divide
\* its filters, and the first and the last unit are not grouped.
C14_WholeLatentFilters ==
    ResnextBuilt =>
      /\ self.lgroups >= 1 /\ self.lfilters >= 1
      /\ args.lgroups # NoneInt => self.lgroups = args.lgroups
      /\ args.lfilters # NoneInt => self.lfilters = args.lfilters
      /\ layers.layer_first.filters = self.lgroups * self.lfilters
      /\ layers.layer_first.lgroups = NoneInt
      /\ \A n \in DOMAIN layers.layer_middle :
           /\ layers.layer_middle[n].filters = self.lgroups * self.lfilters
           /\ layers.layer_middle[n].lgroups = self.lgroups
           /\ layers.layer_middle[n].filters % layers.layer_middle[n].lgroups
                = 0
      /\ layers.layer_last.lgroups = NoneInt
      /\ layers.layer_last.filters = args.ofilters

\* A ResNeXt block given 2 groups of 3 filters was built with two middle
\* units of 6 filters.
C14_Witness ==
    /\ ResnextBuilt
    /\ args.lgroups = 2
    /\ args.lfilters = 3
    /\ Cardinality(DOMAIN layers.layer_middle) = 2
    /\ layers.layer_first.filters = 6
    /\ \A n \in DOMAIN layers.layer_middle :
         layers.layer_middle[n].filters = 6

\* A ResNeXt block constructed without lfilters has started build.
LfiltersInferred ==
    /\ Constructed
    /\ IsResnext(args.cls)
    /\ args.lfilters = NoneInt
    /\ input_shape # << >>

\* Four times the parameter count G * x * (D*K*x + Cin + Cout) of the
\* grouped block at x = twice / 2, and four times that of the plain block,
\* L * (D*K*L + Cin + Cout), at L = Cin / 2.
GroupedCount4(G, DK, S, twice) == G * twice * (DK * twice + 2 * S)

PlainCount4(DK, S, Cin) == Cin * (DK * Cin + 2 * S)

\* r is round(x) for the x >= 0 at which the two counts are equal: the
\* count grows with x, so x lies between r - 1/2 and r + 1/2, and a value
\* half way between two integers goes to the even one.
BalancedAt(r, G, DK, S, Cin) ==
    /\ r >= 1 =>
         /\ GroupedCount4(G, DK, S, 2 * r - 1) <= PlainCount4(DK, S, Cin)
         /\ GroupedCount4(G, DK, S, 2 * r - 1) = PlainCount4(DK, S, Cin)
              => r % 2 = 0
    /\ PlainCount4(DK, S, Cin) <= GroupedCount4(G, DK, S, 2 * r + 1)
    /\ GroupedCount4(G, DK, S, 2 * r + 1) = PlainCount4(DK, S, Cin)
         => r % 2 = 0

LfiltersBalanced(n, G, DK, S, Cin) ==
    \/ n >= 2 /\ BalancedAt(n, G, DK, S, Cin)
    \/ n = 1 /\ (BalancedAt(1, G, DK, S, Cin) \/ BalancedAt(0, G, DK, S, Cin))

\* C15: a ResNeXt block built without lfilters gets lfilters =
\* max(1, round(x)), x the non-negative root of
\* G*D*K*x^2 + G*(Cin+Cout)*x - L*(Cin+Cout+D*K*L) = 0 with G = lgroups
\* (32 when lgroups is unset too), D = depth - 2, K the product of
\* kernel_size and L = Cin / 2: the x at which the grouped block has the
\* parameter count of a plain block with L latent filters.
C15_LfiltersFromQuadratic ==
    LfiltersInferred =>
      /\ self.lgroups = (IF args.lgroups = NoneInt THEN 32 ELSE args.lgroups)
      /\ LfiltersBalanced(self.lfilters, self.lgroups,
                          (args.depth - 2) * _get_prod(self.kernel_size),
                          ChannelOf(self.data_format, input_shape)
                            + args.ofilters,
                          ChannelOf(self.data_format, input_shape))

\* A ResNeXt block of 2 groups was built without lfilters and got more
\* than one filter per group.
C15_Witness ==
    /\ LfiltersInferred
    /\ pc = "built"
    /\ args.lgroups = 2
    /\ self.lfilters >= 3

\* The padding or cropping on axis i, (0, 0) when there is no layer.
AmountAt(layer, field, i) ==
    IF layer.kind \in {"ZeroPadding", "Cropping"} THEN layer[field][i]
    ELSE <<0, 0>>

\* C16: in a built transposed block the padding on either side of a
\* spatial axis is lower than the stride along that axis, and so is the
\* cropping, also when they were inferred from output_mshape.
C16_AmountsBelowStride ==
    (Constructed /\ IsTransposed(args.cls) /\ pc = "built") =>
      \A i \in 1..self.rank :
         /\ AmountAt(layers.layer_padding, "padding", i)[1] < self.strides[i]
         /\ AmountAt(layers.layer_padding, "padding", i)[2] < self.strides[i]
         /\ AmountAt(layers.layer_cropping, "cropping", i)[1]
              < self.strides[i]
         /\ AmountAt(layers.layer_cropping, "cropping", i)[2]
              < self.strides[i]

\* target_i - input_i * max(stride_i, dilation_i) along spatial axis i.
SpatialDiff(i) ==
    SpatialOf(self.data_format, self.rank, args.output_mshape)[i]
      - SpatialOf(self.data_format, self.rank, input_shape)[i]
          * Max(self.strides[i], self.dilation_rate[i])

\* The pair of an inferred output_padding / output_cropping on axis i.
PairAt(p, i) == IF p.kind = "pairs" THEN p.pairs[i] ELSE <<0, 0>>

Abs(d) == IF d < 0 THEN - d ELSE d

\* C17: with padding and cropping inferred from output_mshape, on every
\* spatial axis i with d = target_i - input_i * max(stride_i, dilation_i)
\* the padding pair is (d div 2, d div 2 + d mod 2) and the cropping pair
\* (0, 0) if d > 0, the other way round with |d| if d < 0, and both are
\* (0, 0) if d = 0.
C17_InferredPairs ==
    MshapeBuildStarted =>
      \A i \in 1..self.rank :
         /\ PairAt(self.output_padding, i)
              = (IF SpatialDiff(i) > 0
                 THEN <<SpatialDiff(i) \div 2,
                        (SpatialDiff(i) \div 2) + (SpatialDiff(i) % 2)>>
                 ELSE <<0, 0>>)
         /\ PairAt(self.output_cropping, i)
              = (IF SpatialDiff(i) < 0
                 THEN <<Abs(SpatialDiff(i)) \div 2,
                        (Abs(SpatialDiff(i)) \div 2)
                          + (Abs(SpatialDiff(i)) % 2)>>
                 ELSE <<0, 0>>)

====
